---- MODULE Spec2Model ----
(***************************************************************************)
(* Model of src-tauri/src/convert.rs: the SVG to PNG conversion commands   *)
(* (convert_svg_to_png, scan_svg_folder_sizes) and the pure helpers they   *)
(* call (compute_output_size, enforce_pixel_cap, parse_bg_color,           *)
(* make_output_path, is_svg, read_svg_size).                               *)
(*                                                                         *)
(* Four specifications share the helpers:                                  *)
(*   Spec      one call of convert_svg_to_png: validation, the sequential  *)
(*             item loop, and per item the conversion task and the         *)
(*             stage-relay task running concurrently;                      *)
(*   SpecScan  one call of scan_svg_folder_sizes, one loop iteration per   *)
(*             step;                                                       *)
(*   SpecSize  one call of compute_output_size or enforce_pixel_cap;       *)
(*   SpecPath  one call of make_output_path.                               *)
(***************************************************************************)
EXTENDS Integers, Sequences, FiniteSets, TLC

VARIABLES
  req,        \* ConvertRequest built at convert.rs:370, plus input_paths
  pc,         \* position of the convert_svg_to_png future
  svgs,       \* resolved inputs (Vec<PathBuf>), in processing order
  total, ok, failed,   \* the u32 locals of convert.rs:422-424
  idx,        \* `index` of the item being processed (0 before the loop)
  conv,       \* the conversion task of the current item (spawn_blocking #2)
  chan,       \* the mpsc channel: stage names sent and not yet received
  relay,      \* the stage-relay task of the current item (spawn_blocking #1)
  events,     \* everything emitted on the window, in emission order
  written,    \* output paths written by fs::write
  ret,        \* what the command returned (None while it runs)
  scan,       \* locals of scan_svg_folder_sizes
  sizeCall,   \* last call of compute_output_size / enforce_pixel_cap
  pathCall    \* last call of make_output_path

vars == <<req, pc, svgs, total, ok, failed, idx, conv, chan, relay, events,
          written, ret, scan, sizeCall, pathCall>>

batchVars == <<req, pc, svgs, total, ok, failed, idx, conv, chan, relay,
               events, written, ret>>

----------------------------------------------------------------------------
(* Option<T> and Result<T, String> *)

None == [some |-> FALSE]

Some(x) == [some |-> TRUE, v |-> x]

Ok(x) == [ok |-> TRUE, v |-> x]

Err(m) == [ok |-> FALSE, err |-> m]

\* a task or command that panicked instead of returning
Panicked == [ok |-> FALSE, panicked |-> TRUE]

----------------------------------------------------------------------------
(* Fixed-width integers.  TLC's integers are 32-bit signed, so a u32 is    *)
(* held as three and a u64 as five little-endian limbs of 15 bits.         *)

LimbBase == 2^15

\* little-endian limbs of a natural number below 2^31
Limbs(n) == <<n % LimbBase, (n \div LimbBase) % LimbBase,
              n \div (LimbBase * LimbBase)>>

U32(n) == Limbs(n)

\* u32::MAX = 4294967295 = 3 * 2^30 + 32767 * 2^15 + 32767
U32_MAX == <<LimbBase - 1, LimbBase - 1, 3>>

U32_ZERO == <<0, 0, 0>>

\* value of a u32 that is known to fit TLC's integers
U32ToInt(u) == u[1] + u[2] * LimbBase + u[3] * LimbBase * LimbBase

\* limb sequences of equal length, compared from the most significant limb
RECURSIVE WideGt(_, _)
WideGt(a, b) ==
  IF Len(a) = 0 THEN FALSE
  ELSE LET n == Len(a) IN
       IF a[n] # b[n] THEN a[n] > b[n]
       ELSE WideGt(SubSeq(a, 1, n - 1), SubSeq(b, 1, n - 1))

\* carry propagation over five columns
Carry5(c) ==
  LET k1 == c[1] \div LimbBase
      s2 == c[2] + k1
      k2 == s2 \div LimbBase
      s3 == c[3] + k2
      k3 == s3 \div LimbBase
      s4 == c[4] + k3
      k4 == s4 \div LimbBase
      s5 == c[5] + k4
  IN <<c[1] % LimbBase, s2 % LimbBase, s3 % LimbBase, s4 % LimbBase, s5>>

\* the product truncated to 32 bits, as w * h on u32 would wrap
MulU64Wrap32(w, h) ==
  LET p == Carry5(<<w[1] * h[1],
                    w[1] * h[2] + w[2] * h[1],
                    w[1] * h[3] + w[2] * h[2] + w[3] * h[1],
                    w[2] * h[3] + w[3] * h[2],
                    w[3] * h[3]>>)
  IN <<p[1], p[2], p[3] % 4, 0, 0>>

\* (w as u64) * (h as u64): the full 64-bit product of two u32
MulU64(w, h) ==
  Carry5(<<w[1] * h[1],
           w[1] * h[2] + w[2] * h[1],
           w[1] * h[3] + w[2] * h[2] + w[3] * h[1],
           w[2] * h[3] + w[3] * h[2],
           w[3] * h[3]>>)

U64(n) == Limbs(n) \o <<0, 0>>

----------------------------------------------------------------------------
(* f64.  A finite value is neg * (num / den) * LimbBase^sh with den a      *)
(* power of two, so the values used and their products with a small        *)
(* integer are exactly representable and the arithmetic below is exact.    *)

F64Nan == [cls |-> "nan"]

F64Inf(neg) == [cls |-> "inf", neg |-> neg]

F64(num, den) == [cls |-> "fin", neg |-> FALSE, num |-> num, den |-> den, sh |-> 0]

F64Neg(num, den) == [cls |-> "fin", neg |-> TRUE, num |-> num, den |-> den, sh |-> 0]

\* num * 2^(15 * sh), an integer too large for a u32 when sh >= 3
F64Big(num, sh) == [cls |-> "fin", neg |-> FALSE, num |-> num, den |-> 1, sh |-> sh]

is_finite(s) == s.cls = "fin"

\* s < 0.0
LtZero(s) == s.cls = "fin" /\ s.neg /\ s.num # 0

\* s <= 0.0
LeZero(s) == s.cls = "fin" /\ (s.neg \/ s.num = 0)

\* (n as f64) * s for a finite s
MulF64(n, s) == [s EXCEPT !.num = n * s.num]

\* f64::round of a finite value >= 0: to nearest, ties away from zero
RoundDown(x) == [x EXCEPT !.num = x.num \div x.den, !.den = 1]

round(x) == [x EXCEPT !.num = (2 * x.num + x.den) \div (2 * x.den), !.den = 1]

\* f64::max(1.0) of an integral value >= 0
NoMax1(x) == x

max1(x) == IF x.num = 0 THEN [x EXCEPT !.num = 1, !.sh = 0] ELSE x

\* `as u32` of an integral f64 >= 0: saturating at u32::MAX
AsU32(x) ==
  LET l == Limbs(x.num)
      wide == [i \in 1..6 |-> IF i > x.sh /\ i - x.sh <= 3 THEN l[i - x.sh] ELSE 0]
  IN IF wide[4] # 0 \/ wide[5] # 0 \/ wide[6] # 0 \/ wide[3] >= 4
     THEN U32_MAX
     ELSE <<wide[1], wide[2], wide[3]>>

----------------------------------------------------------------------------
(* Sizing: convert.rs:12, 97-142 *)

MAX_PIXELS == 80000000

\* (MAX_PIXELS as f64).sqrt().floor() as u32
max_sq == CHOOSE x \in 1..10000 : x * x <= MAX_PIXELS /\ (x + 1) * (x + 1) > MAX_PIXELS

\* (MAX_PIXELS as f64) / 1_000_000.0, printed with {:.0}
max_mp == (MAX_PIXELS + 500000) \div 1000000

TooLargeMsg ==
  "Too large. Max is ~" \o ToString(max_sq) \o "x" \o ToString(max_sq)
    \o " (" \o ToString(max_mp) \o "MP)."

enforce_pixel_cap_wrap32(w, h) ==
  IF WideGt(MulU64Wrap32(w, h), U64(MAX_PIXELS)) THEN Err(TooLargeMsg) ELSE Ok("unit")

enforce_pixel_cap_ge(w, h) ==
  LET pixels == MulU64(w, h) IN
  IF WideGt(pixels, U64(MAX_PIXELS)) \/ pixels = U64(MAX_PIXELS)
  THEN Err(TooLargeMsg) ELSE Ok("unit")

enforce_pixel_cap(w, h) ==
  LET pixels == MulU64(w, h) IN
  IF WideGt(pixels, U64(MAX_PIXELS)) THEN Err(TooLargeMsg) ELSE Ok("unit")

\* one axis of scale mode: (src as f64 * s).round().max(1.0) as u32
ScaleAxis(n, s) == AsU32(max1(round(MulF64(n, s))))

\* compute_output_size with the exact-mode checks in the wrong order
compute_output_size_hw(r, src) ==
  IF r.size_mode = "scale" THEN
    LET s == IF r.scale.some THEN r.scale.v ELSE F64(1, 1) IN
    IF ~is_finite(s) \/ LeZero(s) THEN Err("Scale must be a positive number.")
    ELSE Ok(<<ScaleAxis(src.width, s), ScaleAxis(src.height, s)>>)
  ELSE IF r.size_mode = "exact" THEN
    IF ~r.height.some THEN Err("Height is required in Exact mode.")
    ELSE IF ~r.width.some THEN Err("Width is required in Exact mode.")
    ELSE IF r.width.v = U32_ZERO /\ r.height.v = U32_ZERO
      THEN Err("Width/Height must be positive numbers.")
    ELSE Ok(<<r.width.v, r.height.v>>)
  ELSE Err("Invalid size mode.")

compute_output_size(r, src) ==
  IF r.size_mode = "scale" THEN
    LET s == IF r.scale.some THEN r.scale.v ELSE F64(1, 1) IN
    IF ~is_finite(s) \/ LeZero(s) THEN Err("Scale must be a positive number.")
    ELSE Ok(<<ScaleAxis(src.width, s), ScaleAxis(src.height, s)>>)
  ELSE IF r.size_mode = "exact" THEN
    IF ~r.width.some THEN Err("Width is required in Exact mode.")
    ELSE IF ~r.height.some THEN Err("Height is required in Exact mode.")
    ELSE IF r.width.v = U32_ZERO \/ r.height.v = U32_ZERO
      THEN Err("Width/Height must be positive numbers.")
    ELSE Ok(<<r.width.v, r.height.v>>)
  ELSE Err("Invalid size mode.")

----------------------------------------------------------------------------
(* Inputs of the sizing functions *)

MaxSrcDim == 3

MaxScaleNum == 5

SrcDims == 1..MaxSrcDim \cup {100, 300}

SrcSizes == [width : SrcDims, height : SrcDims]

\* positive finite scale factors: n/1, n/2, n/4, n/1024, and two integers
\* beyond TLC's own range: 3 * 2^30 (fits a u32) and 2^45 (does not)
PosScales ==
  {F64(n, d) : n \in 1..MaxScaleNum, d \in {1, 2, 4, 1024}}
    \cup {F64Big(3, 2), F64Big(1, 3)}

BadScales == {F64Nan, F64Inf(FALSE), F64Inf(TRUE), F64(0, 1), F64Neg(1, 2)}

ScaleOpts == {None} \cup {Some(s) : s \in PosScales \cup BadScales}

DimOpts == {None, Some(U32(0)), Some(U32(1)), Some(U32(100)), Some(U32_MAX)}

SizeModes == {"scale", "exact", "Scale", ""}

CropOpts == {None, Some(TRUE), Some(FALSE)}

SizeReqs ==
  [size_mode : SizeModes, scale : ScaleOpts, width : DimOpts, height : DimOpts,
   crop : CropOpts]

\* target sizes around the pixel cap, and around 2^32 for the product
CapDims ==
  {U32(1), U32(8000), U32(8944), U32(8945), U32(10000), U32(10001),
   U32(65536), U32_MAX}

----------------------------------------------------------------------------
(* Idle values: what a specification leaves untouched *)

NoCall == [fn |-> "none"]

BatchIdle ==
  /\ req = [input_mode |-> "none"]
  /\ pc = "off"
  /\ svgs = <<>>
  /\ total = 0 /\ ok = 0 /\ failed = 0 /\ idx = 0
  /\ conv = [pc |-> "none"]
  /\ chan = [open |-> FALSE, buf |-> <<>>]
  /\ relay = [pc |-> "none"]
  /\ events = <<>>
  /\ written = {}
  /\ ret = None

ScanIdle == scan = [pc |-> "off"]

----------------------------------------------------------------------------
(* SpecSize: calls of compute_output_size and enforce_pixel_cap *)

InitSize == BatchIdle /\ ScanIdle /\ sizeCall = NoCall /\ pathCall = NoCall

CallComputeOutputSize ==
  /\ sizeCall = NoCall
  /\ \E r \in SizeReqs, src \in SrcSizes :
       sizeCall' = [fn |-> "compute_output_size", req |-> r, src |-> src,
                    res |-> compute_output_size(r, src)]
  /\ UNCHANGED <<batchVars, scan, pathCall>>

CallEnforcePixelCap ==
  /\ sizeCall = NoCall
  /\ \E w \in CapDims, h \in CapDims :
       sizeCall' = [fn |-> "enforce_pixel_cap", w |-> w, h |-> h,
                    res |-> enforce_pixel_cap(w, h)]
  /\ UNCHANGED <<batchVars, scan, pathCall>>

NextSize == CallComputeOutputSize \/ CallEnforcePixelCap

SpecSize == InitSize /\ [][NextSize]_vars

----------------------------------------------------------------------------
(* Claims about compute_output_size (SpecSize) *)

\* the integer nearest to n * s, a tie going to the larger one, for s > 0:
\* the k with k - 1/2 <= n * s < k + 1/2
NearestInt(n, s) ==
  LET p == n * s.num IN
  CHOOSE k \in 0..p : (2 * k - 1) * s.den <= 2 * p /\ 2 * p < (2 * k + 1) * s.den

\* a natural number k * 2^(15 * sh), k < 2^31, as six limbs
Wide6(k, sh) ==
  LET l == Limbs(k) IN
  [i \in 1..6 |-> IF i > sh /\ i - sh <= 3 THEN l[i - sh] ELSE 0]

\* max(1, round(n * s)) as a mathematical integer, in six limbs
ClampedRound(n, s) ==
  LET k == NearestInt(n, s) IN IF k = 0 THEN Wide6(1, 0) ELSE Wide6(k, s.sh)

PadU32(u) == [i \in 1..6 |-> IF i <= 3 THEN u[i] ELSE 0]

FitsU32(wide) == wide[4] = 0 /\ wide[5] = 0 /\ wide[6] = 0 /\ wide[3] < 4

ScaleCall ==
  /\ sizeCall.fn = "compute_output_size"
  /\ sizeCall.req.size_mode = "scale"
  /\ sizeCall.req.scale.some
  /\ sizeCall.req.scale.v \in PosScales

\* C8 as stated: in scale mode, for every intrinsic size and every finite
\* scale factor s > 0, compute_output_size returns
\* (max(1, round(srcW * s)), max(1, round(srcH * s))).
C8_ScaleRoundClamp ==
  ScaleCall =>
    /\ sizeCall.res.ok
    /\ PadU32(sizeCall.res.v[1]) = ClampedRound(sizeCall.src.width, sizeCall.req.scale.v)
    /\ PadU32(sizeCall.res.v[2]) = ClampedRound(sizeCall.src.height, sizeCall.req.scale.v)

SaturatedRound(n, s) ==
  IF FitsU32(ClampedRound(n, s)) THEN ClampedRound(n, s) ELSE PadU32(U32_MAX)

\* C8 amended: in scale mode, for every intrinsic size and every finite scale
\* factor s > 0, compute_output_size returns, on each axis independently,
\* max(1, round(src * s)) rounded half away from zero when that fits a u32,
\* and 4294967295 (u32::MAX) when it does not; a tiny s never yields 0.
C8_ScaleRoundClampSaturating ==
  ScaleCall =>
    /\ sizeCall.res.ok
    /\ PadU32(sizeCall.res.v[1]) = SaturatedRound(sizeCall.src.width, sizeCall.req.scale.v)
    /\ PadU32(sizeCall.res.v[2]) = SaturatedRound(sizeCall.src.height, sizeCall.req.scale.v)
    /\ sizeCall.res.v[1] # U32_ZERO /\ sizeCall.res.v[2] # U32_ZERO

\* s = 1/2 on a 3 x 1 source: the tie 1.5 goes to 2, the tie 0.5 goes to 1
C8_Witness ==
  /\ ScaleCall
  /\ sizeCall.req.scale.v = F64(1, 2)
  /\ sizeCall.src = [width |-> 3, height |-> 1]
  /\ sizeCall.res = Ok(<<U32(2), U32(1)>>)

ExactCall ==
  /\ sizeCall.fn = "compute_output_size"
  /\ sizeCall.req.size_mode = "exact"

\* C9: in exact mode compute_output_size returns the requested (width,
\* height) unchanged when both are present and > 0; it fails with 'Width is
\* required in Exact mode.' when width is absent, 'Height is required in
\* Exact mode.' when width is present and height absent, 'Width/Height must
\* be positive numbers.' when both are present and either is 0; a size mode
\* other than 'scale' or 'exact' fails with 'Invalid size mode.'.
C9_ExactMode ==
  /\ ExactCall =>
       LET w == sizeCall.req.width
           h == sizeCall.req.height
       IN /\ (~w.some) => sizeCall.res = Err("Width is required in Exact mode.")
          /\ (w.some /\ ~h.some) => sizeCall.res = Err("Height is required in Exact mode.")
          /\ (w.some /\ h.some /\ (w.v = U32(0) \/ h.v = U32(0)))
               => sizeCall.res = Err("Width/Height must be positive numbers.")
          /\ (w.some /\ h.some /\ w.v # U32(0) /\ h.v # U32(0))
               => sizeCall.res = Ok(<<w.v, h.v>>)
  /\ (sizeCall.fn = "compute_output_size" /\ sizeCall.req.size_mode \notin {"scale", "exact"})
       => sizeCall.res = Err("Invalid size mode.")

\* exact mode, width present and height 0, on a source of another size
C9_Witness ==
  /\ ExactCall
  /\ sizeCall.req.width = Some(U32(100))
  /\ sizeCall.req.height = Some(U32(0))
  /\ sizeCall.src = [width |-> 3, height |-> 1]
  /\ sizeCall.res = Err("Width/Height must be positive numbers.")

----------------------------------------------------------------------------
(* Paths.  A path is the sequence of its directory components (from the    *)
(* filesystem root) and, for the last component, its stem and extension;   *)
(* no component holds a separator.                                         *)

Path(dir, stem, ext) == [dir |-> dir, stem |-> stem, ext |-> ext]

\* the last component as written
FileName(p) == IF p.ext = "" THEN p.stem ELSE p.stem \o "." \o p.ext

Components(p) == p.dir \o <<FileName(p)>>

IsPrefix(a, b) == Len(a) <= Len(b) /\ SubSeq(b, 1, Len(a)) = a

\* str::replace(['/', '\\'], "_") of the components written with separators
RECURSIVE JoinWith(_, _)
JoinWith(names, sep) ==
  IF Len(names) = 0 THEN ""
  ELSE IF Len(names) = 1 THEN names[1]
  ELSE names[1] \o sep \o JoinWith(Tail(names), sep)

\* make_output_path that also falls back to the parent folder name in folder mode
make_output_path_anymode(svg_path, root, out_dir, out_w, out_h) ==
  LET base == svg_path.stem
      file_name == base \o "_" \o ToString(out_w) \o "x" \o ToString(out_h) \o ".png"
      rel_parent ==
        IF root.some /\ IsPrefix(root.v, Components(svg_path)) /\ root.v # Components(svg_path)
        THEN SubSeq(svg_path.dir, Len(root.v) + 1, Len(svg_path.dir))
        ELSE <<>>
      rel_prefix1 == JoinWith(rel_parent, "_")
      rel_prefix ==
        IF rel_prefix1 = "" /\ out_dir.some /\ Len(svg_path.dir) > 0
        THEN svg_path.dir[Len(svg_path.dir)]
        ELSE rel_prefix1
      final_name == IF rel_prefix = "" THEN file_name ELSE rel_prefix \o "_" \o file_name
  IN IF out_dir.some THEN [dir |-> out_dir.v, file |-> final_name]
     ELSE [dir |-> svg_path.dir, file |-> final_name]

make_output_path(svg_path, root, out_dir, out_w, out_h) ==
  LET base == svg_path.stem
      file_name == base \o "_" \o ToString(out_w) \o "x" \o ToString(out_h) \o ".png"
      \* strip_prefix(root), then parent() of what is left
      rel_parent ==
        IF root.some /\ IsPrefix(root.v, Components(svg_path)) /\ root.v # Components(svg_path)
        THEN SubSeq(svg_path.dir, Len(root.v) + 1, Len(svg_path.dir))
        ELSE <<>>
      rel_prefix1 == JoinWith(rel_parent, "_")
      \* svg_path.parent().file_name(): None for a file directly under "/"
      rel_prefix ==
        IF rel_prefix1 = "" /\ ~root.some /\ out_dir.some /\ Len(svg_path.dir) > 0
        THEN svg_path.dir[Len(svg_path.dir)]
        ELSE rel_prefix1
      final_name == IF rel_prefix = "" THEN file_name ELSE rel_prefix \o "_" \o file_name
  IN IF out_dir.some THEN [dir |-> out_dir.v, file |-> final_name]
     ELSE [dir |-> svg_path.dir, file |-> final_name]

----------------------------------------------------------------------------
(* SpecPath: one call of make_output_path *)

MaxDepth == 3

DirNames == {"a", "b", "a_b"}

RECURSIVE DirsUpTo(_)
DirsUpTo(n) ==
  IF n = 0 THEN {<<>>}
  ELSE DirsUpTo(n - 1) \cup {Append(d, x) : d \in DirsUpTo(n - 1), x \in DirNames}

SvgPaths == {Path(d, st, "svg") : d \in DirsUpTo(MaxDepth), st \in {"a", "b"}}

\* the batch root of folder mode is a directory above the source
RootsOf(p) == {None} \cup {Some(SubSeq(p.dir, 1, k)) : k \in 0..Len(p.dir)}

OutDirOpts == {None, Some(<<"out">>)}

OutDims == {1, 20}

InitPath == BatchIdle /\ ScanIdle /\ sizeCall = NoCall /\ pathCall = NoCall

CallMakeOutputPath ==
  /\ pathCall = NoCall
  /\ \E p \in SvgPaths, o \in OutDirOpts, w \in OutDims, h \in OutDims :
       \E r \in RootsOf(p) :
         pathCall' = [fn |-> "make_output_path", svg_path |-> p, root |-> r,
                      out_dir |-> o, out_w |-> w, out_h |-> h,
                      res |-> make_output_path(p, r, o, w, h)]
  /\ UNCHANGED <<batchVars, scan, sizeCall>>

NextPath == CallMakeOutputPath

SpecPath == InitPath /\ [][NextPath]_vars

----------------------------------------------------------------------------
(* Claims about make_output_path (SpecPath) *)

PathCalled == pathCall.fn = "make_output_path"

\* <source-stem>_<width>x<height>.png
PlainName(c) == c.svg_path.stem \o "_" \o ToString(c.out_w) \o "x" \o ToString(c.out_h) \o ".png"

\* the source's parent directory relative to the batch root
RelParent(c) == SubSeq(c.svg_path.dir, Len(c.root.v) + 1, Len(c.svg_path.dir))

\* the name of the source's immediate parent folder; the filesystem root has none
ParentFolderName(c) ==
  IF Len(c.svg_path.dir) = 0 THEN "" ELSE c.svg_path.dir[Len(c.svg_path.dir)]

PlacedRight(c) ==
  c.res.dir = IF c.out_dir.some THEN c.out_dir.v ELSE c.svg_path.dir

\* C10 as stated: make_output_path returns [<prefix>_]<stem>_<w>x<h>.png with
\* the prefix, in folder mode, the relative parent directory joined by '_'
\* when non-empty; in file mode with an output directory, the name of the
\* source's immediate parent folder; no prefix otherwise; placed in the
\* output directory when given, else in the source's own directory.
C10_OutputPath ==
  PathCalled =>
    LET c == pathCall IN
    /\ PlacedRight(c)
    /\ (c.root.some /\ RelParent(c) # <<>>)
         => c.res.file = JoinWith(RelParent(c), "_") \o "_" \o PlainName(c)
    /\ (c.root.some /\ RelParent(c) = <<>>) => c.res.file = PlainName(c)
    /\ (~c.root.some /\ c.out_dir.some)
         => c.res.file = ParentFolderName(c) \o "_" \o PlainName(c)
    /\ (~c.root.some /\ ~c.out_dir.some) => c.res.file = PlainName(c)

\* C10 amended: as C10, except that in file mode with an output directory the
\* prefix is the name of the source's immediate parent folder only when the
\* source has a named parent folder; a source directly under the filesystem
\* root gets no prefix.
C10_OutputPathNamedParent ==
  PathCalled =>
    LET c == pathCall IN
    /\ PlacedRight(c)
    /\ (c.root.some /\ RelParent(c) # <<>>)
         => c.res.file = JoinWith(RelParent(c), "_") \o "_" \o PlainName(c)
    /\ (c.root.some /\ RelParent(c) = <<>>) => c.res.file = PlainName(c)
    /\ (~c.root.some /\ c.out_dir.some /\ ParentFolderName(c) # "")
         => c.res.file = ParentFolderName(c) \o "_" \o PlainName(c)
    /\ (~c.root.some /\ c.out_dir.some /\ ParentFolderName(c) = "")
         => c.res.file = PlainName(c)
    /\ (~c.root.some /\ ~c.out_dir.some) => c.res.file = PlainName(c)

\* folder mode, two levels below the root, written next to the source
C10_Witness ==
  /\ PathCalled
  /\ pathCall.svg_path = Path(<<"a", "b", "a">>, "b", "svg")
  /\ pathCall.root = Some(<<"a">>)
  /\ pathCall.out_dir = None
  /\ pathCall.res = [dir |-> <<"a", "b", "a">>, file |-> "b_a_b_1x20.png"]

----------------------------------------------------------------------------
(* scan_svg_folder_sizes: convert.rs:78-84, 110-119, 283-354 *)

\* str::eq_ignore_ascii_case compares the ASCII-lowercased strings
AsciiLower(x) ==
  CASE x = "SVG" -> "svg"
    [] x = "Svg" -> "svg"
    [] x = "TXT" -> "txt"
    [] OTHER -> x

is_svg_exact(path) == path.ext = "svg"

is_svg(path) == path.ext # "" /\ AsciiLower(path.ext) = AsciiLower("svg")

\* an SVG document's natural size, in half units (99 is 49.5); `valid` is
\* FALSE for bytes that cannot be read or are not SVG
Doc(w2, h2) == [valid |-> TRUE, w2 |-> w2, h2 |-> h2]

NoDoc == [valid |-> FALSE, w2 |-> 0, h2 |-> 0]

\* f32::ceil().max(1.0) as u32 of a natural dimension given in half units
CeilMax1(d2) == IF (d2 + 1) \div 2 < 1 THEN 1 ELSE (d2 + 1) \div 2

\* read_svg_size giving 1 x 1 for bytes that are not SVG
read_svg_size_lenient(doc) ==
  IF ~doc.valid THEN Ok([width |-> 1, height |-> 1])
  ELSE Ok([width |-> CeilMax1(doc.w2), height |-> CeilMax1(doc.h2)])

read_svg_size(doc) ==
  IF ~doc.valid THEN Err("parse error")
  ELSE Ok([width |-> CeilMax1(doc.w2), height |-> CeilMax1(doc.h2)])

SizeDiffersWidthOnly(sz, bs) == sz.width # bs.width

\* convert.rs:315
SizeDiffers(sz, bs) == sz.width # bs.width \/ sz.height # bs.height

\* a membership test that never finds the size
NotListedEver(unique, sz) == TRUE

\* unique_sizes.iter().all(|u| u.width != sz.width || u.height != sz.height)
NotListed(unique, sz) ==
  \A i \in 1..Len(unique) : unique[i].width # sz.width \/ unique[i].height # sz.height

\* a directory entry as WalkDir yields it
Entry(is_file, ext, doc) == [is_file |-> is_file, path |-> Path(<<"in">>, "f", ext), doc |-> doc]

EntryKinds ==
  { Entry(TRUE, "svg", Doc(100, 100)),     \* 50 x 50
    Entry(TRUE, "svg", Doc(99, 100)),      \* 49.5 x 50, read as 50 x 50
    Entry(TRUE, "svg", Doc(120, 120)),     \* 60 x 60
    Entry(TRUE, "svg", Doc(100, 120)),     \* 50 x 60
    Entry(TRUE, "SVG", Doc(100, 100)),     \* upper-case extension
    Entry(TRUE, "svg", NoDoc),             \* not valid SVG
    Entry(TRUE, "txt", NoDoc),             \* another file
    Entry(FALSE, "svg", NoDoc) }           \* a directory named like an SVG

MaxEntries == 4

Walks == UNION {[1..n -> EntryKinds] : n \in 0..MaxEntries}

InitScan ==
  /\ BatchIdle /\ sizeCall = NoCall /\ pathCall = NoCall
  /\ \E w \in Walks, d \in BOOLEAN :
       scan = [pc |-> "call", is_dir |-> d, walk |-> w]

\* convert.rs:285-299: the directory check and the locals
ScanCall ==
  /\ scan.pc = "call"
  /\ IF ~scan.is_dir
     THEN scan' = [pc |-> "done", walk |-> scan.walk, read |-> <<>>,
                   ret |-> Err("Invalid folder path.")]
     ELSE scan' = [pc |-> "loop", walk |-> scan.walk, pos |-> 1, read |-> <<>>,
                   total |-> 0, all_same |-> TRUE, base_size |-> None,
                   unique_sizes |-> <<>>, keep_parsing |-> TRUE]
  /\ UNCHANGED <<batchVars, sizeCall, pathCall>>

\* the body of lines 326-336, after a size equal to the base size was read
CollectUnique(sc, sz) ==
  IF NotListed(sc.unique_sizes, sz)
  THEN LET u == Append(sc.unique_sizes, sz) IN
       IF Len(u) >= 6 /\ Len(u) > 1
       THEN [sc EXCEPT !.unique_sizes = u, !.all_same = FALSE, !.keep_parsing = FALSE]
       ELSE [sc EXCEPT !.unique_sizes = u]
  ELSE sc

\* convert.rs:301-337: one iteration of the walk
ScanVisit ==
  /\ scan.pc = "loop"
  /\ scan.pos <= Len(scan.walk)
  /\ LET e == scan.walk[scan.pos]
         next == [scan EXCEPT !.pos = scan.pos + 1]
         counted == [next EXCEPT !.total = scan.total + 1]
         r == read_svg_size(e.doc)
     IN scan' =
          IF ~e.is_file \/ ~is_svg(e.path) THEN next
          ELSE IF ~scan.keep_parsing THEN counted
          ELSE IF ~r.ok
            THEN [pc |-> "done", walk |-> scan.walk, read |-> scan.read, ret |-> r]
          ELSE LET sz == r.v
                   seen == [counted EXCEPT !.read = Append(scan.read, sz)]
               IN IF ~scan.base_size.some
                  THEN CollectUnique([seen EXCEPT !.base_size = Some(sz)], sz)
                  ELSE IF SizeDiffers(sz, scan.base_size.v)
                    THEN [seen EXCEPT
                            !.all_same = FALSE,
                            !.unique_sizes =
                               IF NotListed(scan.unique_sizes, sz)
                               THEN Append(scan.unique_sizes, sz)
                               ELSE scan.unique_sizes,
                            !.keep_parsing = FALSE]
                    ELSE CollectUnique(seen, sz)
  /\ UNCHANGED <<batchVars, sizeCall, pathCall>>

\* convert.rs:339-353: the report
ScanReturn ==
  /\ scan.pc = "loop"
  /\ scan.pos > Len(scan.walk)
  /\ LET u == IF scan.all_same /\ scan.base_size.some /\ scan.unique_sizes = <<>>
              THEN <<scan.base_size.v>>
              ELSE scan.unique_sizes
     IN scan' = [pc |-> "done", walk |-> scan.walk, read |-> scan.read,
                 ret |-> Ok([total |-> scan.total, all_same |-> scan.all_same,
                             base_size |-> scan.base_size, unique_sizes |-> u])]
  /\ UNCHANGED <<batchVars, sizeCall, pathCall>>

NextScan == ScanCall \/ ScanVisit \/ ScanReturn

SpecScan == InitScan /\ [][NextScan]_vars

----------------------------------------------------------------------------
(* Claims about scan_svg_folder_sizes (SpecScan) *)

ScanReported == scan.pc = "done" /\ scan.ret.ok

\* C6: whenever scan_svg_folder_sizes returns a report, for any visiting
\* order, allSame is true iff every SVG file whose size the scan read has
\* the same (width, height) as the first one read; it is true for an empty
\* tree.
C6_AllSameIff ==
  ScanReported =>
    (scan.ret.v.all_same <=> \A i \in 1..Len(scan.read) : scan.read[i] = scan.read[1])

\* a report over files of sizes 50x50, 49.5x50 (read as 50x50) and 50x60:
\* allSame is false because of the last one only
C6_Witness ==
  /\ ScanReported
  /\ scan.read = << [width |-> 50, height |-> 50], [width |-> 50, height |-> 50],
                    [width |-> 50, height |-> 60] >>
  /\ ~scan.ret.v.all_same

SvgExtensions == {"svg", "SVG", "Svg", "sVg", "svG", "SVg", "sVG", "SvG"}

MatchingFiles ==
  {i \in 1..Len(scan.walk) : scan.walk[i].is_file /\ scan.walk[i].path.ext \in SvgExtensions}

\* C7: whenever scan_svg_folder_sizes returns a report, total equals the
\* number of regular files whose extension matches 'svg' case-insensitively,
\* including the files visited after the early exit, which are counted but
\* never parsed: a later file that is not valid SVG neither fails the scan
\* nor is left out of total.
C7_TotalCountsAll ==
  /\ ScanReported => scan.ret.v.total = Cardinality(MatchingFiles)
  /\ (scan.pc = "loop" /\ ~scan.keep_parsing) =>
        /\ Len(scan.read) >= 2
        /\ \A i \in 1..(Len(scan.read) - 1) : scan.read[i] = scan.read[1]
        /\ scan.read[Len(scan.read)] # scan.read[1]

\* a report after a mismatch followed by an invalid SVG file and an
\* upper-case .SVG file: both counted, neither parsed
C7_Witness ==
  /\ ScanReported
  /\ Len(scan.walk) = 4
  /\ scan.walk[3] = Entry(TRUE, "svg", NoDoc)
  /\ scan.walk[4].path.ext = "SVG"
  /\ Len(scan.read) = 2
  /\ scan.ret.v.total = 4

----------------------------------------------------------------------------
(* parse_bg_color: convert.rs:86-95.  A string is the sequence of its      *)
(* characters; "U+E9" stands for one character of two UTF-8 bytes.       *)

ByteLen(c) == IF c = "U+E9" THEN 2 ELSE 1

HexDigits ==
  {"0", "1", "2", "3", "4", "5", "6", "7", "8", "9",
   "a", "b", "c", "d", "e", "f", "A", "B", "C", "D", "E", "F"}

IsWhitespace(c) == c = " "

RECURSIVE TrimStart(_)
TrimStart(str) ==
  IF Len(str) > 0 /\ IsWhitespace(str[1]) THEN TrimStart(Tail(str)) ELSE str

RECURSIVE TrimEnd(_)
TrimEnd(str) ==
  IF Len(str) > 0 /\ IsWhitespace(str[Len(str)])
  THEN TrimEnd(SubSeq(str, 1, Len(str) - 1)) ELSE str

\* str::trim
trim(str) == TrimEnd(TrimStart(str))

\* str::trim_start_matches('#'): every leading '#'
RECURSIVE trim_start_hashes(_)
trim_start_hashes(str) ==
  IF Len(str) > 0 /\ str[1] = "#" THEN trim_start_hashes(Tail(str)) ELSE str

\* str::len: the length in bytes
RECURSIVE ByteLength(_)
ByteLength(str) ==
  IF Len(str) = 0 THEN 0 ELSE ByteLen(str[1]) + ByteLength(Tail(str))

\* the byte offsets at which a character starts or the string ends
CharBoundaries(str) == {ByteLength(SubSeq(str, 1, k)) : k \in 0..Len(str)}

\* &s[from..to] for offsets on character boundaries
ByteSlice(str, from, to) ==
  LET a == CHOOSE k \in 0..Len(str) : ByteLength(SubSeq(str, 1, k)) = from
      b == CHOOSE k \in 0..Len(str) : ByteLength(SubSeq(str, 1, k)) = to
  IN SubSeq(str, a + 1, b)

\* u8::from_str_radix(src, 16).ok(): an optional '+', then hex digits only
from_str_radix_16(src) ==
  LET digits == IF Len(src) > 1 /\ src[1] = "+" THEN Tail(src) ELSE src IN
  Len(digits) > 0 /\ \A i \in 1..Len(digits) : digits[i] \in HexDigits

\* "some": a colour; "none": None; "panic": the byte slice splits a character
parse_bg_color(bg) ==
  LET str == trim_start_hashes(trim(bg)) IN
  IF ByteLength(str) # 6 THEN "none"
  ELSE IF ~({2, 4} \subseteq CharBoundaries(str)) THEN "panic"
  ELSE IF /\ from_str_radix_16(ByteSlice(str, 0, 2))
          /\ from_str_radix_16(ByteSlice(str, 2, 4))
          /\ from_str_radix_16(ByteSlice(str, 4, 6))
       THEN "some"
       ELSE "none"

\* req.background.as_ref().map(|s| s.trim()).filter(|s| !s.is_empty())
GivenBackground(background) ==
  IF background.some /\ trim(background.v) # <<>> THEN Some(trim(background.v)) ELSE None

----------------------------------------------------------------------------
(* The filesystem the batch runs on, listed in PathBuf order *)

FsEntry(path, kind, doc) == [path |-> path, kind |-> kind, doc |-> doc]

Fs ==
  << FsEntry(Path(<<>>, "in", ""), "dir", NoDoc),
     FsEntry(Path(<<"in">>, "a", "svg"), "file", Doc(200, 100)),
     FsEntry(Path(<<"in">>, "b", "SVG"), "file", NoDoc),
     FsEntry(Path(<<"in">>, "c", "txt"), "file", NoDoc),
     FsEntry(Path(<<"in">>, "d", "svg"), "dir", NoDoc),
     FsEntry(Path(<<"in">>, "sub", ""), "dir", NoDoc),
     FsEntry(Path(<<"in", "sub">>, "a", "svg"), "file", Doc(599, 200)) >>

Lookup(path) ==
  IF \E i \in 1..Len(Fs) : Fs[i].path = path
  THEN Fs[CHOOSE i \in 1..Len(Fs) : Fs[i].path = path]
  ELSE FsEntry(path, "missing", NoDoc)

is_dir(path) == Lookup(path).kind = "dir"

is_file(path) == Lookup(path).kind = "file"

\* WalkDir::new(root) filtered to SVG files, then svgs.sort()
Under(root, path) ==
  IsPrefix(Components(root), Components(path)) /\ Components(root) # Components(path)

RECURSIVE SvgsUnder(_, _)
SvgsUnder(root, k) ==
  IF k > Len(Fs) THEN <<>>
  ELSE IF Under(root, Fs[k].path) /\ Fs[k].kind = "file" /\ is_svg(Fs[k].path)
       THEN <<Fs[k].path>> \o SvgsUnder(root, k + 1)
       ELSE SvgsUnder(root, k + 1)

----------------------------------------------------------------------------
(* Inputs of convert_svg_to_png *)

BgValid == <<"#", "f", "f", "0", "0", "a", "a">>

BgPadded == <<"f", "f", "0", "0", "a", "a", " ">>

BgShort == <<"#", "f", "f", "0", "0", "a">>

BgNotHex == <<"#", "g", "g", "0", "0", "0", "0">>

BgPlus == <<"#", "+", "f", "+", "f", "+", "f">>

BgSplit == <<"#", "a", "U+E9", "1", "2", "3">>

BgBlank == <<" ">>

Backgrounds ==
  {None, Some(<<>>), Some(BgBlank), Some(BgValid), Some(BgPadded), Some(BgShort),
   Some(BgNotHex), Some(BgPlus), Some(BgSplit)}

DirIn == Path(<<>>, "in", "")

FileA == Path(<<"in">>, "a", "svg")

Missing == Path(<<>>, "nope", "")

InputDirs == {DirIn, Path(<<"in">>, "sub", ""), Path(<<"in">>, "d", "svg"), FileA, Missing}

InputFiles == {FileA, Path(<<"in">>, "c", "txt"), Path(<<"in">>, "d", "svg"), DirIn, Missing}

ListPaths ==
  {FileA, Path(<<"in">>, "b", "SVG"), Path(<<"in">>, "c", "txt"), Path(<<"in">>, "zz", "svg")}

MaxPaths == 2

PathLists == UNION {[1..n -> ListPaths] : n \in 1..MaxPaths}

\* (input_mode, input_path, input_paths)
PathInputs ==
  {<<"folder", d, None>> : d \in InputDirs}
    \cup {<<"file", f, l>> : f \in InputFiles, l \in {None, Some(<<>>)}}
    \cup {<<"file", Missing, Some(l)>> : l \in PathLists}

Sizing(mode, scale, width, height) ==
  [size_mode |-> mode, scale |-> scale, width |-> width, height |-> height]

Exact(w, h) == Sizing("exact", None, Some(U32(w)), Some(U32(h)))

BatchSizings ==
  { Exact(100, 100),
    Exact(8000, 10000),          \* exactly MAX_PIXELS
    Exact(8001, 10000),
    Exact(65536, 65536),         \* 2^32 pixels
    Sizing("exact", None, None, Some(U32(100))),
    Sizing("scale", None, None, None),
    Sizing("scale", Some(F64(1, 1024)), None, None),
    Sizing("scale", Some(F64Big(1, 3)), None, None),
    Sizing("", None, None, None) }

Request(pi, out, sz, crop, bg) ==
  [input_mode |-> pi[1], input_path |-> pi[2], input_paths |-> pi[3],
   output_dir |-> out, size_mode |-> sz.size_mode, scale |-> sz.scale,
   width |-> sz.width, height |-> sz.height, crop |-> crop, background |-> bg]

\* every path input and background with one sizing, and every sizing with
\* one path input and background
Requests ==
  {Request(pi, out, Exact(100, 100), None, bg) :
     pi \in PathInputs, out \in OutDirOpts, bg \in Backgrounds}
  \cup
  {Request(<<"folder", DirIn, None>>, out, sz, None, None) :
     out \in OutDirOpts, sz \in BatchSizings}

Init ==
  /\ req \in Requests
  /\ pc = "call"
  /\ svgs = <<>>
  /\ total = 0 /\ ok = 0 /\ failed = 0 /\ idx = 0
  /\ conv = [pc |-> "none"]
  /\ chan = [open |-> FALSE, buf |-> <<>>]
  /\ relay = [pc |-> "none"]
  /\ events = <<>>
  /\ written = {}
  /\ ret = None
  /\ ScanIdle /\ sizeCall = NoCall /\ pathCall = NoCall

----------------------------------------------------------------------------
(* convert_svg_to_png: convert.rs:356-535 *)

ProgressEvent(phase, current, active, tot, k, f, last_svg) ==
  [ev |-> "convert-progress", phase |-> phase, current |-> current, active |-> active,
   total |-> tot, ok |-> k, failed |-> f, last_svg |-> last_svg]

\* ItemEvent with the error message left out
ItemEventNoError(index, tot, svg, png, out_width, out_height, success, error) ==
  [ev |-> "convert-item", index |-> index, total |-> tot, svg |-> svg, png |-> png,
   out_width |-> out_width, out_height |-> out_height, ok |-> success,
   engine |-> Some("resvg"), error |-> None]

ItemEvent(index, tot, svg, png, out_width, out_height, success, error) ==
  [ev |-> "convert-item", index |-> index, total |-> tot, svg |-> svg, png |-> png,
   out_width |-> out_width, out_height |-> out_height, ok |-> success,
   engine |-> Some("resvg"), error |-> error]

\* the empty string given as `png` of a failed item
EmptyPath == [dir |-> <<>>, file |-> ""]

\* lines 396-420: the resolved inputs, or the error
ResolveInputs(r) ==
  IF r.input_mode = "folder" THEN Ok(SvgsUnder(r.input_path, 1))
  ELSE LET provided == IF r.input_paths.some THEN r.input_paths.v ELSE <<>> IN
       IF provided # <<>>
       THEN IF \E i \in 1..Len(provided) : ~is_file(provided[i]) \/ ~is_svg(provided[i])
            THEN Err("Invalid SVG file path.")
            ELSE Ok(provided)
       ELSE IF ~is_file(r.input_path) \/ ~is_svg(r.input_path)
            THEN Err("Invalid SVG file path.")
            ELSE Ok(<<r.input_path>>)

\* lines 381-437, up to the first await: validation, resolution, 'start'
Validate ==
  /\ pc = "call"
  /\ LET bg == GivenBackground(req.background)
         resolved == ResolveInputs(req)
         fails(msg) ==
           /\ ret' = Some(Err(msg)) /\ pc' = "returned"
           /\ UNCHANGED <<svgs, total, events>>
     IN IF req.input_mode = "folder" /\ ~is_dir(req.input_path)
          THEN fails("Invalid folder path.")
        ELSE IF bg.some /\ parse_bg_color(bg.v) = "panic"
          THEN /\ ret' = Some(Panicked) /\ pc' = "returned"
               /\ UNCHANGED <<svgs, total, events>>
        ELSE IF bg.some /\ parse_bg_color(bg.v) = "none"
          THEN fails("Invalid background color (expected #RRGGBB).")
        ELSE IF ~resolved.ok
          THEN fails(resolved.err)
        ELSE /\ svgs' = resolved.v
             /\ total' = Len(resolved.v)
             /\ events' = Append(events,
                  ProgressEvent("start", 0, None, Len(resolved.v), 0, 0, None))
             /\ pc' = "loop"
             /\ ret' = ret
  /\ UNCHANGED <<req, ok, failed, idx, conv, chan, relay, written, scan, sizeCall, pathCall>>

\* Spawn with a relay that reports the counters of the start of the batch
SpawnZeroCounters ==
  /\ pc = "loop"
  /\ idx < total
  /\ idx' = idx + 1
  /\ chan' = [open |-> TRUE, buf |-> <<>>]
  /\ relay' = [pc |-> "run", index |-> idx + 1, total |-> total, ok |-> 0,
               failed |-> 0, svg |-> svgs[idx + 1]]
  /\ conv' = [pc |-> "read", svg |-> svgs[idx + 1],
              root |-> IF req.input_mode = "folder"
                       THEN Some(Components(req.input_path)) ELSE None,
              out_dir |-> req.output_dir]
  /\ pc' = "await_conv"
  /\ UNCHANGED <<req, svgs, total, ok, failed, events, written, ret, scan, sizeCall, pathCall>>

\* lines 439-478, up to the await of the conversion task: the channel and
\* the two spawn_blocking calls of one iteration
Spawn ==
  /\ pc = "loop"
  /\ idx < total
  /\ idx' = idx + 1
  /\ chan' = [open |-> TRUE, buf |-> <<>>]
  /\ relay' = [pc |-> "run", index |-> idx + 1, total |-> total, ok |-> ok,
               failed |-> failed, svg |-> svgs[idx + 1]]
  /\ conv' = [pc |-> "read", svg |-> svgs[idx + 1],
              root |-> IF req.input_mode = "folder"
                       THEN Some(Components(req.input_path)) ELSE None,
              out_dir |-> req.output_dir]
  /\ pc' = "await_conv"
  /\ UNCHANGED <<req, svgs, total, ok, failed, events, written, ret, scan, sizeCall, pathCall>>

\* the task returns or unwinds: stage_tx is dropped
ConvEnds(result) ==
  /\ conv' = [pc |-> "done", svg |-> conv.svg, res |-> result]
  /\ UNCHANGED written

Send(stage) == [chan EXCEPT !.buf = Append(chan.buf, stage)]

\* lines 196-197
ConvRead ==
  /\ conv.pc = "read"
  /\ \E readable \in BOOLEAN :
       IF readable
       THEN /\ chan' = Send("read")
            /\ conv' = [conv EXCEPT !.pc = "parse"]
            /\ UNCHANGED written
       ELSE /\ chan' = [Send("read") EXCEPT !.open = FALSE]
            /\ ConvEnds(Err("read failed"))
  /\ UNCHANGED <<req, pc, svgs, total, ok, failed, idx, relay, events, ret, scan,
                 sizeCall, pathCall>>

\* lines 199-212: parse, intrinsic size, target size, pixel cap
ConvParse ==
  /\ conv.pc = "parse"
  /\ \E panics \in BOOLEAN :
       LET src_sz == read_svg_size(Lookup(conv.svg).doc)
           out == compute_output_size(req, src_sz.v)
           cap == enforce_pixel_cap(out.v[1], out.v[2])
           stop(result) == /\ chan' = [Send("parse") EXCEPT !.open = FALSE]
                           /\ ConvEnds(result)
       IN IF panics THEN stop(Panicked)
          ELSE IF ~src_sz.ok THEN stop(src_sz)
          ELSE IF ~out.ok THEN stop(out)
          ELSE IF ~cap.ok THEN stop(cap)
          ELSE /\ chan' = Send("parse")
               /\ conv' = [pc |-> "render", svg |-> conv.svg, root |-> conv.root,
                           out_dir |-> conv.out_dir, out_w |-> out.v[1],
                           out_h |-> out.v[2]]
               /\ UNCHANGED written
  /\ UNCHANGED <<req, pc, svgs, total, ok, failed, idx, relay, events, ret, scan,
                 sizeCall, pathCall>>

\* tiny_skia::Pixmap::new: None for a zero dimension
PixmapNew(w, h) == w # U32_ZERO /\ h # U32_ZERO

\* lines 214-247: allocation, background, rasterization
ConvRender ==
  /\ conv.pc = "render"
  /\ \E panics \in BOOLEAN :
       LET bg == GivenBackground(req.background)
           stop(result) == /\ chan' = [Send("render") EXCEPT !.open = FALSE]
                           /\ ConvEnds(result)
       IN IF ~PixmapNew(conv.out_w, conv.out_h) THEN stop(Err("Failed to allocate pixmap."))
          ELSE IF bg.some /\ parse_bg_color(bg.v) = "panic" THEN stop(Panicked)
          ELSE IF bg.some /\ parse_bg_color(bg.v) = "none"
            THEN stop(Err("Invalid background color (expected #RRGGBB)."))
          ELSE IF panics THEN stop(Panicked)
          ELSE /\ chan' = Send("render")
               /\ conv' = [conv EXCEPT !.pc = "write"]
               /\ UNCHANGED written
  /\ UNCHANGED <<req, pc, svgs, total, ok, failed, idx, relay, events, ret, scan,
                 sizeCall, pathCall>>

\* lines 249-256: output path, directories, encoding, the file
ConvWrite ==
  /\ conv.pc = "write"
  /\ chan' = [Send("write") EXCEPT !.open = FALSE]
  /\ \E io \in {"ok", "create_dir_all failed", "encode failed", "write failed"} :
       LET out_path == make_output_path(conv.svg, conv.root, conv.out_dir,
                                        U32ToInt(conv.out_w), U32ToInt(conv.out_h))
       IN IF io = "ok"
          THEN /\ written' = written \cup {out_path}
               /\ conv' = [pc |-> "done", svg |-> conv.svg,
                           res |-> Ok(<<out_path, conv.out_w, conv.out_h>>)]
          ELSE ConvEnds(Err(io))
  /\ UNCHANGED <<req, pc, svgs, total, ok, failed, idx, relay, events, ret, scan,
                 sizeCall, pathCall>>

\* RelayRecv on a channel that hands out the newest message first
RelayRecvLifo ==
  /\ relay.pc = "run"
  /\ chan.buf # <<>>
  /\ events' = Append(events,
       ProgressEvent(chan.buf[Len(chan.buf)], relay.index, Some(relay.index), relay.total,
                     relay.ok, relay.failed, Some(relay.svg)))
  /\ chan' = [chan EXCEPT !.buf = SubSeq(chan.buf, 1, Len(chan.buf) - 1)]
  /\ UNCHANGED <<req, pc, svgs, total, ok, failed, idx, conv, relay, written, ret, scan,
                 sizeCall, pathCall>>

\* lines 452-465: one turn of `while let Ok(stage) = stage_rx.recv()`
RelayRecv ==
  /\ relay.pc = "run"
  /\ chan.buf # <<>>
  /\ events' = Append(events,
       ProgressEvent(Head(chan.buf), relay.index, Some(relay.index), relay.total,
                     relay.ok, relay.failed, Some(relay.svg)))
  /\ chan' = [chan EXCEPT !.buf = Tail(chan.buf)]
  /\ UNCHANGED <<req, pc, svgs, total, ok, failed, idx, conv, relay, written, ret, scan,
                 sizeCall, pathCall>>

\* RelayEnd with recv() still blocking after the sender was dropped
RelayEndBlocked ==
  /\ relay.pc = "run"
  /\ chan.buf = <<>>
  /\ ~chan.open
  /\ relay' = relay
  /\ UNCHANGED <<req, pc, svgs, total, ok, failed, idx, conv, chan, events, written, ret,
                 scan, sizeCall, pathCall>>

\* recv() fails once the channel is empty and the sender dropped
RelayEnd ==
  /\ relay.pc = "run"
  /\ chan.buf = <<>>
  /\ ~chan.open
  /\ relay' = [relay EXCEPT !.pc = "done"]
  /\ UNCHANGED <<req, pc, svgs, total, ok, failed, idx, conv, chan, events, written, ret,
                 scan, sizeCall, pathCall>>

\* lines 477-478: the await of the conversion task; `?` on a JoinError
AwaitConv ==
  /\ pc = "await_conv"
  /\ conv.pc = "done"
  /\ IF conv.res = Panicked
     THEN /\ ret' = Some(Err("task panicked")) /\ pc' = "returned"
     ELSE /\ pc' = "await_relay" /\ ret' = ret
  /\ UNCHANGED <<req, svgs, total, ok, failed, idx, conv, chan, relay, events, written,
                 scan, sizeCall, pathCall>>

\* FinishItem without the await of the stage relay
FinishItemNoJoin ==
  /\ pc = "await_relay"
  /\ LET res == conv.res
         k == IF res.ok THEN ok + 1 ELSE ok
         f == IF res.ok THEN failed ELSE failed + 1
         item == IF res.ok
                 THEN ItemEvent(idx, total, conv.svg, res.v[1], Some(res.v[2]),
                                Some(res.v[3]), TRUE, None)
                 ELSE ItemEvent(idx, total, conv.svg, EmptyPath, None, None, FALSE,
                                Some(res.err))
     IN /\ ok' = k
        /\ failed' = f
        /\ events' = events \o <<item, ProgressEvent("done", idx, None, total, k, f,
                                                     Some(conv.svg))>>
  /\ pc' = "loop"
  /\ UNCHANGED <<req, svgs, total, idx, conv, chan, relay, written, ret, scan, sizeCall,
                 pathCall>>

\* FinishItem with a failure left out of the failed counter
FinishItemDropFailure ==
  /\ pc = "await_relay"
  /\ relay.pc = "done"
  /\ LET res == conv.res
         k == IF res.ok THEN ok + 1 ELSE ok
         f == failed
         item == IF res.ok
                 THEN ItemEvent(idx, total, conv.svg, res.v[1], Some(res.v[2]),
                                Some(res.v[3]), TRUE, None)
                 ELSE ItemEvent(idx, total, conv.svg, EmptyPath, None, None, FALSE,
                                Some(res.err))
     IN /\ ok' = k
        /\ failed' = f
        /\ events' = events \o <<item, ProgressEvent("done", idx, None, total, k, f,
                                                     Some(conv.svg))>>
  /\ pc' = "loop"
  /\ UNCHANGED <<req, svgs, total, idx, conv, chan, relay, written, ret, scan, sizeCall,
                 pathCall>>

\* lines 481-532: the await of the stage relay, the counters, the item
\* event and the 'done' event
FinishItem ==
  /\ pc = "await_relay"
  /\ relay.pc = "done"
  /\ LET res == conv.res
         k == IF res.ok THEN ok + 1 ELSE ok
         f == IF res.ok THEN failed ELSE failed + 1
         item == IF res.ok
                 THEN ItemEvent(idx, total, conv.svg, res.v[1], Some(res.v[2]),
                                Some(res.v[3]), TRUE, None)
                 ELSE ItemEvent(idx, total, conv.svg, EmptyPath, None, None, FALSE,
                                Some(res.err))
     IN /\ ok' = k
        /\ failed' = f
        /\ events' = events \o <<item, ProgressEvent("done", idx, None, total, k, f,
                                                     Some(conv.svg))>>
  /\ pc' = "loop"
  /\ UNCHANGED <<req, svgs, total, idx, conv, chan, relay, written, ret, scan, sizeCall,
                 pathCall>>

\* line 534
Return ==
  /\ pc = "loop"
  /\ idx = total
  /\ ret' = Some(Ok([total |-> total, ok |-> ok, failed |-> failed]))
  /\ pc' = "returned"
  /\ UNCHANGED <<req, svgs, total, ok, failed, idx, conv, chan, relay, events, written,
                 scan, sizeCall, pathCall>>

Next ==
  \/ Validate \/ Spawn \/ ConvRead \/ ConvParse \/ ConvRender \/ ConvWrite
  \/ RelayRecv \/ RelayEnd \/ AwaitConv \/ FinishItem \/ Return

Spec == Init /\ [][Next]_vars

----------------------------------------------------------------------------
(* Properties of convert_svg_to_png *)

IsItem(e) == e.ev = "convert-item"

IsPhase(e, phases) == e.ev = "convert-progress" /\ e.phase \in phases

Stages == {"read", "parse", "render", "write"}

\* the item an event belongs to; 0 for 'start'
ItemOf(e) == IF IsItem(e) THEN e.index ELSE e.current

ItemPos(i) == {n \in DOMAIN events : IsItem(events[n]) /\ events[n].index = i}

DonePos(i) == {n \in DOMAIN events : IsPhase(events[n], {"done"}) /\ events[n].current = i}

Summary == ret.v.v

\* C1: after the item event and the 'done' event of item i the counters
\* carried by the 'done' event and held by the loop satisfy ok + failed = i,
\* a 'done' event directly follows the item event of the same item, and a
\* returned summary has ok + failed = total = the number of resolved inputs.
C1_CountersAddUp ==
  /\ \A n \in DOMAIN events :
       IsPhase(events[n], {"done"}) =>
         /\ events[n].ok + events[n].failed = events[n].current
         /\ n > 1 /\ IsItem(events[n - 1]) /\ events[n - 1].index = events[n].current
  /\ pc = "loop" => ok + failed = idx
  /\ (ret.some /\ ret.v.ok) =>
       /\ Summary.ok + Summary.failed = Summary.total
       /\ Summary.total = Len(ResolveInputs(req).v)

\* a summary of a batch of several items, some converted and some failed
C1_Witness ==
  /\ ret.some /\ ret.v.ok
  /\ Summary.total >= 2 /\ Summary.ok >= 1 /\ Summary.failed >= 1

\* C2: once the loop has started ('start' was emitted), the returned call
\* has given every resolved input exactly one item event and then exactly
\* one 'done' event, in increasing index order, and returns a summary.
C2_NoItemAborts ==
  (pc = "returned" /\ events # <<>>) =>
    /\ ret.v.ok
    /\ \A i \in 1..total :
         /\ Cardinality(ItemPos(i)) = 1
         /\ Cardinality(DonePos(i)) = 1
         /\ \A a \in ItemPos(i), b \in DonePos(i) : a < b
         /\ i < total => \A b \in DonePos(i), a \in ItemPos(i + 1) : b < a

SixHexDigits(str) == Len(str) = 6 /\ \A i \in 1..6 : str[i] \in HexDigits

\* a colour written with six hex digits, '#' and surrounding blanks aside
ValidColour(bg) == SixHexDigits(trim_start_hashes(trim(bg)))

BadPrecondition(r) ==
  \/ r.input_mode = "folder" /\ ~is_dir(r.input_path)
  \/ r.background.some /\ trim(r.background.v) # <<>> /\ ~ValidColour(r.background.v)
  \/ /\ r.input_mode # "folder"
     /\ LET provided == IF r.input_paths.some THEN r.input_paths.v ELSE <<>>
            given == IF provided # <<>> THEN provided ELSE <<r.input_path>>
        IN \E i \in DOMAIN given : ~is_file(given[i]) \/ ~is_svg(given[i])

\* C3: a request with a bad folder, a non-blank background that is not a
\* six-hex-digit colour, or a bad file path returns an error having emitted
\* no event, started no conversion and written no file.
C3_FailFast ==
  (pc # "call" /\ BadPrecondition(req)) =>
    /\ pc = "returned"
    /\ ret.some /\ ~ret.v.ok /\ ret.v # Panicked
    /\ events = <<>> /\ written = {} /\ idx = 0 /\ conv.pc = "none"

\* stage events first, then the item event, then 'done'
Rank(e) == IF IsPhase(e, Stages) THEN 0 ELSE IF IsItem(e) THEN 1 ELSE 2

\* C4: the events are emitted item by item, and within an item every stage
\* event precedes the item event, which precedes the 'done' event; so no
\* stage event of item i follows its 'done' event or an event of item i+1.
C4_StagesBeforeCompletion ==
  \A m, n \in DOMAIN events :
    m < n =>
      /\ ItemOf(events[m]) <= ItemOf(events[n])
      /\ ItemOf(events[m]) = ItemOf(events[n]) => Rank(events[m]) <= Rank(events[n])

\* the second item has been through all four stages and is complete
C4_Witness ==
  /\ \A st \in Stages :
       \E n \in DOMAIN events : IsPhase(events[n], {st}) /\ events[n].current = 2
  /\ DonePos(1) # {} /\ DonePos(2) # {}

\* the target size of item i, or the error that precedes the cap check
TargetOf(i) ==
  LET src_sz == read_svg_size(Lookup(svgs[i]).doc) IN
  IF ~src_sz.ok THEN src_sz ELSE compute_output_size(req, src_sz.v)

\* w * h > MAX_PIXELS, by division
PixelsOver(w, h) ==
  IF w = U32_ZERO \/ h = U32_ZERO THEN FALSE
  ELSE IF w[3] >= 2 \/ h[3] >= 2 THEN TRUE
  ELSE U32ToInt(w) > MAX_PIXELS \div U32ToInt(h)

Over(i) == TargetOf(i).ok /\ PixelsOver(TargetOf(i).v[1], TargetOf(i).v[2])

Within(i) == TargetOf(i).ok /\ ~PixelsOver(TargetOf(i).v[1], TargetOf(i).v[2])

SizeLimitFailure(e) == IsItem(e) /\ ~e.ok /\ e.error = Some(TooLargeMsg)

\* C5: an item whose target size has more than MAX_PIXELS pixels, computed
\* exactly, never reaches the render or write stage, emits neither stage
\* event, completes only with the size-limit error (or with the failure to
\* read its file, which precedes the size) and writes no file; an
\* item whose target size has at most MAX_PIXELS pixels never fails with
\* the size-limit error.
C5_PixelCap ==
  /\ \A n \in DOMAIN events :
       LET e == events[n] IN
       /\ (IsPhase(e, {"render", "write"}) => ~Over(e.current))
       /\ (IsItem(e) /\ Over(e.index) =>
             SizeLimitFailure(e) \/ (~e.ok /\ e.error = Some("read failed")))
       /\ (IsItem(e) /\ Within(e.index) => ~SizeLimitFailure(e))
  /\ (conv.pc \in {"render", "write"} => ~Over(idx))
  /\ (\A i \in DOMAIN svgs : TargetOf(i).ok => Over(i)) => written = {}

\* a 65536 x 65536 target, whose pixel count is 0 modulo 2^32, was rejected
\* with the size-limit error
C5_Witness ==
  /\ req.width = Some(U32(65536)) /\ req.height = Some(U32(65536))
  /\ \E n \in DOMAIN events : SizeLimitFailure(events[n])

----------------------------------------------------------------------------
(* f32.  A value is (-1)^neg * m * 2^e with m = 0 or 2^23 <= m < 2^24;    *)
(* every operation rounds to nearest, ties to even, as the hardware does.  *)
(* Subnormals, infinities and NaN are outside the values used.             *)

F32Zero == [neg |-> FALSE, m |-> 0, e |-> 0]

RECURSIVE BitLen(_)
BitLen(n) == IF n = 0 THEN 0 ELSE 1 + BitLen(n \div 2)

\* the f32 nearest to (n + f) * 2^e, for an integer 0 <= n < 2^31 and a
\* fraction f with 0 < f < 1 when sticky, f = 0 otherwise
RoundToF32(neg, n, sticky, e) ==
  IF n = 0 THEN F32Zero
  ELSE LET k == BitLen(n) IN
       IF k <= 24 THEN [neg |-> neg, m |-> n * 2^(24 - k), e |-> e - (24 - k)]
       ELSE LET sh == k - 24
                q == n \div 2^sh
                rem == n % 2^sh
                half == 2^(sh - 1)
                up == rem > half \/ (rem = half /\ (sticky \/ q % 2 = 1))
                q1 == IF up THEN q + 1 ELSE q
            IN IF q1 = 2^24 THEN [neg |-> neg, m |-> 2^23, e |-> e + sh + 1]
               ELSE [neg |-> neg, m |-> q1, e |-> e + sh]

\* u32 as f32, and f32 as f32, of an integer below 2^31
AsF32(n) == RoundToF32(FALSE, n, FALSE, 0)

\* n more quotient bits of r / d by long division: <<quotient, remainder>>
RECURSIVE DivBits(_, _, _, _)
DivBits(r, d, q, n) ==
  IF n = 0 THEN <<q, r>>
  ELSE IF 2 * r >= d THEN DivBits(2 * r - d, d, 2 * q + 1, n - 1)
       ELSE DivBits(2 * r, d, 2 * q, n - 1)

\* a / b for a >= 0 and b > 0
F32Div(a, b) ==
  IF a.m = 0 THEN F32Zero
  ELSE LET ge == a.m >= b.m
           qr == IF ge THEN DivBits(a.m - b.m, b.m, 1, 23) ELSE DivBits(a.m, b.m, 0, 24)
           e0 == IF ge THEN a.e - b.e - 23 ELSE a.e - b.e - 24
           up == 2 * qr[2] > b.m \/ (2 * qr[2] = b.m /\ qr[1] % 2 = 1)
           q1 == IF up THEN qr[1] + 1 ELSE qr[1]
       IN IF q1 = 2^24 THEN [neg |-> a.neg # b.neg, m |-> 2^23, e |-> e0 + 1]
          ELSE [neg |-> a.neg # b.neg, m |-> q1, e |-> e0]

\* a * b: the 48-bit product of the mantissas in 12-bit halves
F32Mul(a, b) ==
  IF a.m = 0 \/ b.m = 0 THEN F32Zero
  ELSE LET ah == a.m \div 4096   al == a.m % 4096
           bh == b.m \div 4096   bl == b.m % 4096
           mid == ah * bl + al * bh
           low == (mid % 4096) * 4096 + al * bl
           H == ah * bh + mid \div 4096 + low \div 2^24      \* product = H * 2^24 + L
           L == low % 2^24
           wide == H >= 2^23
           q == IF wide THEN H ELSE 2 * H + L \div 2^23
           rem == IF wide THEN L ELSE L % 2^23
           half == IF wide THEN 2^23 ELSE 2^22
           e0 == IF wide THEN a.e + b.e + 24 ELSE a.e + b.e + 23
           up == rem > half \/ (rem = half /\ q % 2 = 1)
           q1 == IF up THEN q + 1 ELSE q
       IN IF q1 = 2^24 THEN [neg |-> a.neg # b.neg, m |-> 2^23, e |-> e0 + 1]
          ELSE [neg |-> a.neg # b.neg, m |-> q1, e |-> e0]

\* a - b for a >= 0 and b >= 0: the operand of smaller exponent is aligned
\* to six guard bits below the other, the bits shifted out kept as sticky
F32Sub(a, b) ==
  IF b.m = 0 THEN a
  ELSE IF a.m = 0 THEN [b EXCEPT !.neg = TRUE]
  ELSE LET aBig == a.e >= b.e
           big == IF aBig THEN a ELSE b
           small == IF aBig THEN b ELSE a
           d == big.e - small.e
           g == IF d <= 6 THEN d ELSE 6
           drop == d - g
           S == IF drop >= 24 THEN 0 ELSE small.m \div 2^drop
           sticky == IF drop >= 24 THEN TRUE ELSE small.m % 2^drop # 0
           D == big.m * 2^g - S
           neg == IF D < 0 THEN aBig ELSE ~aBig
           mag == IF D < 0 THEN 0 - D ELSE D
       IN IF sticky THEN RoundToF32(neg, mag - 1, TRUE, big.e - g)
          ELSE RoundToF32(neg, mag, FALSE, big.e - g)

\* a * 0.5
F32Half(a) == IF a.m = 0 THEN a ELSE [a EXCEPT !.e = a.e - 1]

\* a > b for a >= 0 and b >= 0
F32Gt(a, b) ==
  IF a.m = 0 THEN FALSE
  ELSE IF b.m = 0 THEN TRUE
  ELSE a.e > b.e \/ (a.e = b.e /\ a.m > b.m)

f32_min(a, b) == IF F32Gt(a, b) THEN b ELSE a

\* f32::max
f32_max(a, b) == IF F32Gt(b, a) THEN b ELSE a

\* usvg::Transform::from_row(sx, ky, kx, sy, tx, ty)
from_row(sx, ky, kx, sy, tx, ty) ==
  [sx |-> sx, ky |-> ky, kx |-> kx, sy |-> sy, tx |-> tx, ty |-> ty]

\* usvg::Transform::from_scale
from_scale(sx, sy) == from_row(sx, F32Zero, F32Zero, sy, F32Zero, F32Zero)

\* crop.unwrap_or(false)
CropOn(crop) == crop.some /\ crop.v

\* the transform with the crop flag honoured in every size mode
transform_anymode(r, src_w, src_h, out_w, out_h) ==
  LET out_w_f == AsF32(out_w)
      out_h_f == AsF32(out_h)
  IN IF CropOn(r.crop)
     THEN LET scale == f32_max(F32Div(out_w_f, src_w), F32Div(out_h_f, src_h))
              tx == F32Half(F32Sub(out_w_f, F32Mul(src_w, scale)))
              ty == F32Half(F32Sub(out_h_f, F32Mul(src_h, scale)))
          IN from_row(scale, F32Zero, F32Zero, scale, tx, ty)
     ELSE from_scale(F32Div(out_w_f, src_w), F32Div(out_h_f, src_h))

\* convert.rs:226-245, for the f32 size of the tree and the u32 target
transform(r, src_w, src_h, out_w, out_h) ==
  LET out_w_f == AsF32(out_w)
      out_h_f == AsF32(out_h)
  IN IF r.size_mode = "exact" /\ CropOn(r.crop)
     THEN LET scale == f32_max(F32Div(out_w_f, src_w), F32Div(out_h_f, src_h))
              tx == F32Half(F32Sub(out_w_f, F32Mul(src_w, scale)))
              ty == F32Half(F32Sub(out_h_f, F32Mul(src_h, scale)))
          IN from_row(scale, F32Zero, F32Zero, scale, tx, ty)
     ELSE from_scale(F32Div(out_w_f, src_w), F32Div(out_h_f, src_h))

----------------------------------------------------------------------------
(* Calls of the transform selection and of compute_output_size, on their   *)
(* own                                                                   *)

TransformDims == {1, 3, 7, 100, 300}

TargetDims == {1, 31, 100, 300}

TransformReqs == [size_mode : {"scale", "exact"}, crop : CropOpts]

CallTransform ==
  /\ sizeCall = NoCall
  /\ \E r \in TransformReqs, sw \in TransformDims, sh \in TransformDims,
        tw \in TargetDims, th \in TargetDims :
       sizeCall' = [fn |-> "transform", req |-> r, src_w |-> sw, src_h |-> sh,
                    out_w |-> tw, out_h |-> th,
                    res |-> transform(r, AsF32(sw), AsF32(sh), tw, th)]
  /\ UNCHANGED <<batchVars, scan, pathCall>>

NextTransform == CallTransform \/ CallComputeOutputSize

SpecTransform == InitSize /\ [][NextTransform]_vars

----------------------------------------------------------------------------
(* Properties of the transform (SpecTransform) *)

CropCall ==
  /\ sizeCall.fn = "transform"
  /\ sizeCall.req.size_mode = "exact"
  /\ sizeCall.req.crop = Some(TRUE)

\* a <= 0
F32LeZero(a) == a.m = 0 \/ a.neg

\* the scaled content, as the code computes it, covers the target on both
\* axes, sits at or left of/above the origin, and is flush on one axis
CoversCentred(c) ==
  LET t == c.res
      scaled_w == F32Mul(AsF32(c.src_w), t.sx)
      scaled_h == F32Mul(AsF32(c.src_h), t.sy)
  IN /\ t.sx = t.sy /\ t.kx = F32Zero /\ t.ky = F32Zero
     /\ ~F32Gt(AsF32(c.out_w), scaled_w)
     /\ ~F32Gt(AsF32(c.out_h), scaled_h)
     /\ F32LeZero(t.tx) /\ F32LeZero(t.ty)
     /\ (t.tx.m = 0 \/ t.ty.m = 0)

\* C11 as stated: in exact mode with crop = true, for every source and
\* target size the uniform scale makes the scaled content cover the canvas,
\* tx <= 0 and ty <= 0, and at least one of them is 0.
C11_CoverCrop == CropCall => CoversCentred(sizeCall)

\* t / s has no remainder in 24 bits: the f32 quotient is the real quotient
ExactQuotient(t, s) ==
  LET a == AsF32(t)
      b == AsF32(s)
      qr == IF a.m >= b.m THEN DivBits(a.m - b.m, b.m, 1, 23) ELSE DivBits(a.m, b.m, 0, 24)
  IN qr[2] = 0

\* max(tW/srcW, tH/srcH), as a real number, is an f32
ExactScale(c) ==
  IF c.out_w * c.src_h >= c.out_h * c.src_w
  THEN ExactQuotient(c.out_w, c.src_w)
  ELSE ExactQuotient(c.out_h, c.src_h)

\* C11, amended: in exact mode with crop = true the scale is uniform and the
\* translation is half of target minus scaled source, all in f32; whenever
\* max(tW/srcW, tH/srcH) is exactly representable in f32 the scaled content
\* covers the canvas, tx <= 0, ty <= 0 and at least one of them is 0.
C11_CoverCropExactScale ==
  CropCall =>
    /\ sizeCall.res.sx = sizeCall.res.sy
    /\ sizeCall.res.kx = F32Zero /\ sizeCall.res.ky = F32Zero
    /\ sizeCall.res.tx =
         F32Half(F32Sub(AsF32(sizeCall.out_w), F32Mul(AsF32(sizeCall.src_w), sizeCall.res.sx)))
    /\ sizeCall.res.ty =
         F32Half(F32Sub(AsF32(sizeCall.out_h), F32Mul(AsF32(sizeCall.src_h), sizeCall.res.sx)))
    /\ ExactScale(sizeCall) => CoversCentred(sizeCall)

\* source 300x100 to target 100x100: scale 1, translate (-100, 0)
C11_Witness ==
  /\ CropCall
  /\ sizeCall.src_w = 300 /\ sizeCall.src_h = 100
  /\ sizeCall.out_w = 100 /\ sizeCall.out_h = 100
  /\ sizeCall.res = from_row(AsF32(1), F32Zero, F32Zero, AsF32(1),
                             [AsF32(100) EXCEPT !.neg = TRUE], F32Zero)

----------------------------------------------------------------------------
(* Properties of the item events (Spec) *)

\* the item events among the first n events that succeeded / failed
OkItems(n) == {k \in 1..n : IsItem(events[k]) /\ events[k].ok}

FailedItems(n) == {k \in 1..n : IsItem(events[k]) /\ ~events[k].ok}

\* C12: an item event with ok = true has a non-empty output path, both
\* output dimensions and no error; one with ok = false has the empty path,
\* no dimensions and an error message; the counters carried by the 'done'
\* event that follows, and held by the loop, count exactly the successes
\* and exactly the failures.
C12_ItemOutcome ==
  /\ \A n \in DOMAIN events :
       LET e == events[n] IN
       /\ IsItem(e) =>
            IF e.ok
            THEN /\ e.png # EmptyPath /\ e.png.file # ""
                 /\ e.out_width.some /\ e.out_height.some /\ ~e.error.some
            ELSE /\ e.png = EmptyPath
                 /\ ~e.out_width.some /\ ~e.out_height.some /\ e.error.some
       /\ IsPhase(e, {"done"}) =>
            /\ e.ok = Cardinality(OkItems(n))
            /\ e.failed = Cardinality(FailedItems(n))
  /\ pc = "loop" =>
       /\ ok = Cardinality(OkItems(Len(events)))
       /\ failed = Cardinality(FailedItems(Len(events)))

\* a batch that has emitted a success and a failure
C12_Witness ==
  /\ OkItems(Len(events)) # {} /\ FailedItems(Len(events)) # {}
  /\ pc = "loop"

----------------------------------------------------------------------------
(* The crop flag (SpecTransform) *)

\* independent per-axis scale, zero translation
StretchOf(c) ==
  from_scale(F32Div(AsF32(c.out_w), AsF32(c.src_w)),
             F32Div(AsF32(c.out_h), AsF32(c.src_h)))

\* one scale, the larger of the two quotients, and the centring translation
CoverOf(c) ==
  LET qw == F32Div(AsF32(c.out_w), AsF32(c.src_w))
      qh == F32Div(AsF32(c.out_h), AsF32(c.src_h))
      sc == IF F32Gt(qh, qw) THEN qh ELSE qw
  IN from_row(sc, F32Zero, F32Zero, sc,
              F32Half(F32Sub(AsF32(c.out_w), F32Mul(AsF32(c.src_w), sc))),
              F32Half(F32Sub(AsF32(c.out_h), F32Mul(AsF32(c.src_h), sc))))

\* C13: the cover-crop transform is selected if and only if the size mode
\* is 'exact' and crop is true; in scale mode, and in exact mode with crop
\* false or absent, the stretch transform is used; and the output size of
\* compute_output_size is the same for every value of the crop flag.
C13_CropOnlyInExact ==
  /\ sizeCall.fn = "transform" =>
       IF sizeCall.req.size_mode = "exact" /\ sizeCall.req.crop = Some(TRUE)
       THEN sizeCall.res = CoverOf(sizeCall)
       ELSE sizeCall.res = StretchOf(sizeCall)
  /\ sizeCall.fn = "compute_output_size" =>
       \A c \in CropOpts :
         compute_output_size([sizeCall.req EXCEPT !.crop = c], sizeCall.src) = sizeCall.res

\* scale mode with crop = true, for sizes whose cover and stretch differ
C13_Witness ==
  /\ sizeCall.fn = "transform"
  /\ sizeCall.req.size_mode = "scale" /\ sizeCall.req.crop = Some(TRUE)
  /\ sizeCall.src_w = 300 /\ sizeCall.src_h = 100
  /\ sizeCall.out_w = 100 /\ sizeCall.out_h = 100
  /\ sizeCall.res = StretchOf(sizeCall)
  /\ StretchOf(sizeCall) # CoverOf(sizeCall)

----------------------------------------------------------------------------
(* The stage events of an item (Spec) *)

StageOrder == <<"read", "parse", "render", "write">>

IsStageOf(e, i) == IsPhase(e, Stages) /\ e.current = i

\* the stages delivered for item i, in the order of delivery
RECURSIVE StagesIn(_, _)
StagesIn(evs, i) ==
  IF evs = <<>> THEN <<>>
  ELSE IF IsStageOf(Head(evs), i) THEN <<Head(evs).phase>> \o StagesIn(Tail(evs), i)
  ELSE StagesIn(Tail(evs), i)

StagesOf(i) == StagesIn(events, i)

SizeErrors ==
  {"Scale must be a positive number.", "Width is required in Exact mode.",
   "Height is required in Exact mode.", "Width/Height must be positive numbers.",
   "Invalid size mode.", TooLargeMsg}

RenderErrors ==
  {"Failed to allocate pixmap.", "Invalid background color (expected #RRGGBB)."}

\* the stages an item with this item event must have delivered
StagesFor(e) ==
  IF e.ok THEN StageOrder
  ELSE IF e.error.v = "read failed" THEN SubSeq(StageOrder, 1, 1)
  ELSE IF e.error.v = "parse error" \/ e.error.v \in SizeErrors THEN SubSeq(StageOrder, 1, 2)
  ELSE IF e.error.v \in RenderErrors THEN SubSeq(StageOrder, 1, 3)
  ELSE StageOrder

\* C14: the stage events delivered for an item are always a prefix of read,
\* parse, render, write; a completed item has delivered all four when it
\* succeeded, only 'read' when the read failed, 'read','parse' when the
\* parse, the size validation or the pixel cap failed, 'read','parse',
\* 'render' when allocation or background parsing failed, and all four when
\* the output could not be written.
C14_StagePrefix ==
  /\ \A i \in 1..total :
       \E k \in 0..4 : StagesOf(i) = SubSeq(StageOrder, 1, k)
  /\ \A n \in DOMAIN events :
       IsItem(events[n]) =>
         /\ StagesOf(events[n].index) = StagesFor(events[n])
         /\ StagesIn(SubSeq(events, 1, n), events[n].index) = StagesFor(events[n])

\* a success after four stages and a parse failure after two
C14_Witness ==
  /\ \E n \in DOMAIN events :
       IsItem(events[n]) /\ events[n].ok /\ StagesOf(events[n].index) = StageOrder
  /\ \E n \in DOMAIN events :
       /\ IsItem(events[n]) /\ ~events[n].ok /\ events[n].error = Some("parse error")
       /\ StagesOf(events[n].index) = <<"read", "parse">>

----------------------------------------------------------------------------
(* Termination (SpecFair): the async runtime runs the orchestrator and     *)
(* each blocking task on its own thread, so each of the three makes        *)
(* progress whenever it can                                                *)

Orchestrator == Validate \/ Spawn \/ AwaitConv \/ FinishItem \/ Return

ConversionTask == ConvRead \/ ConvParse \/ ConvRender \/ ConvWrite

StageRelay == RelayRecv \/ RelayEnd

\* the requests in exact mode or with an invalid size mode, whose
\* background is absent, blank or rejected
FairRequests ==
  {r \in Requests :
     /\ r.size_mode # "scale"
     /\ r.background \in {None, Some(BgBlank), Some(BgShort)}
     /\ r.background # None => r.output_dir = None}

InitFair == Init /\ req \in FairRequests

SpecFair ==
  /\ InitFair /\ [][Next]_vars
  /\ WF_vars(Orchestrator) /\ WF_vars(ConversionTask) /\ WF_vars(StageRelay)

\* a command or a conversion task has panicked instead of returning
Unwound == ret = Some(Panicked) \/ (conv.pc = "done" /\ conv.res = Panicked)

\* the call has returned; and if its loop started and no task panicked, the
\* relay of the last item has finished, every resolved input has its 'done'
\* event and the result is the summary
ReturnedAfterAll ==
  /\ pc = "returned"
  /\ (events # <<>> /\ ~Unwound) =>
       /\ ret.v.ok
       /\ idx = total
       /\ relay.pc \in {"none", "done"}
       /\ \A i \in 1..total : DonePos(i) # {}

\* C15: under fair scheduling every call eventually returns, and when each
\* conversion task returned it does so after the relay of every item has
\* finished and every resolved input has been processed.
C15_Terminates == <>ReturnedAfterAll

\* a batch of several items has returned its summary, the last relay ended
C15_Witness ==
  /\ pc = "returned" /\ ret.v.ok /\ total >= 2 /\ idx = total
  /\ relay.pc = "done" /\ conv.pc = "done" /\ ~chan.open

----------------------------------------------------------------------------
(* The scale factor (SpecSize) *)

ScaleModeCall ==
  /\ sizeCall.fn = "compute_output_size"
  /\ sizeCall.req.size_mode = "scale"

ScaleError == Err("Scale must be a positive number.")

\* C16 as stated: in scale mode compute_output_size succeeds only when the
\* request carries a finite, strictly positive scale factor, and fails with
\* 'Scale must be a positive number.' for every other request, an absent
\* scale included.
C16_ScaleRequired ==
  ScaleModeCall =>
    IF sizeCall.req.scale.some /\ sizeCall.req.scale.v \in PosScales
    THEN sizeCall.res.ok
    ELSE sizeCall.res = ScaleError

\* C16, amended: in scale mode compute_output_size succeeds when the scale
\* factor is absent, which stands for 1.0 and returns the intrinsic size,
\* or finite and strictly positive; it fails with 'Scale must be a positive
\* number.' when the scale is NaN, infinite, zero or negative.
C16_ScaleDefaultsToOne ==
  ScaleModeCall =>
    IF ~sizeCall.req.scale.some
    THEN sizeCall.res = Ok(<<U32(sizeCall.src.width), U32(sizeCall.src.height)>>)
    ELSE IF sizeCall.req.scale.v \in PosScales THEN sizeCall.res.ok
    ELSE sizeCall.req.scale.v \in BadScales /\ sizeCall.res = ScaleError

\* a zero scale was rejected
C16_Witness ==
  /\ ScaleModeCall
  /\ sizeCall.req.scale = Some(F64(0, 1))
  /\ sizeCall.res = ScaleError

----------------------------------------------------------------------------
(* Failure of the scan (SpecScan) *)

\* the SVG files of the walk, by position
SvgFiles == {i \in 1..Len(scan.walk) : scan.walk[i].is_file /\ is_svg(scan.walk[i].path)}

SizeAt(i) ==
  [width |-> CeilMax1(scan.walk[i].doc.w2), height |-> CeilMax1(scan.walk[i].doc.h2)]

FirstSvg == CHOOSE i \in SvgFiles : \A j \in SvgFiles : i <= j

\* file i cannot be parsed, and every SVG file before it can and has the
\* size of the first one: no mismatch precedes it
UnparsableBeforeMismatch(i) ==
  /\ i \in SvgFiles /\ ~scan.walk[i].doc.valid
  /\ \A j \in SvgFiles :
       j < i => scan.walk[j].doc.valid /\ SizeAt(j) = SizeAt(FirstSvg)

\* C17: the scan of a directory returns an error, the parse error and no
\* report, exactly when some SVG file that cannot be parsed is visited
\* before any size mismatch; an unparsable file after the mismatch causes
\* no error.
C17_FailsBeforeMismatch ==
  (scan.pc = "done" /\ scan.ret # Err("Invalid folder path.")) =>
    IF \E i \in SvgFiles : UnparsableBeforeMismatch(i)
    THEN scan.ret = Err("parse error")
    ELSE scan.ret.ok

\* the scan failed at an unparsable file after reading a valid one
C17_Witness ==
  /\ scan.pc = "done"
  /\ scan.ret = Err("parse error")
  /\ Len(scan.read) >= 1

----------------------------------------------------------------------------
(* SpecPathPair: the output paths of two sources of one batch *)

\* the directories above both sources: the roots a folder-mode batch that
\* holds both can have
CommonRoots(p, q) ==
  {Some(SubSeq(p.dir, 1, k)) :
     k \in {n \in 0..Len(p.dir) : n <= Len(q.dir) /\ SubSeq(p.dir, 1, n) = SubSeq(q.dir, 1, n)}}

\* lines 445-446 and 250 for two items of one batch: the same root, output
\* directory and target size, two different sources
CallMakeOutputPathPair ==
  /\ pathCall = NoCall
  /\ \E p \in SvgPaths, q \in SvgPaths, o \in OutDirOpts, w \in OutDims :
       /\ p # q
       /\ \E r \in {None} \cup CommonRoots(p, q) :
            pathCall' = [fn |-> "make_output_path_pair", first |-> p, second |-> q,
                         root |-> r, out_dir |-> o, out_w |-> w, out_h |-> w,
                         res1 |-> make_output_path(p, r, o, w, w),
                         res2 |-> make_output_path(q, r, o, w, w)]
  /\ UNCHANGED <<batchVars, scan, sizeCall>>

NextPathPair == CallMakeOutputPathPair

SpecPathPair == InitPath /\ [][NextPathPair]_vars

\* C18: two different source files of one batch with the same target size
\* never get the same output path, in folder mode with an output directory
\* and in file mode with a shared output directory.
C18_NoCollision ==
  (pathCall.fn = "make_output_path_pair" /\ pathCall.out_dir.some) =>
    pathCall.res1 # pathCall.res2

----------------------------------------------------------------------------
(* The counters carried by the progress events (Spec) *)

IsProgress(e) == e.ev = "convert-progress"

\* C19: a stage event of item i carries current = active = i and the
\* counts of the successes and failures of the items before i, so
\* ok + failed = i - 1; over the whole stream the ok and failed values of
\* the progress events never decrease; and no progress event before the
\* 'done' event of item i carries counts that add up to i.
C19_StageCounters ==
  /\ \A n \in DOMAIN events :
       LET e == events[n] IN
       IsPhase(e, Stages) =>
         /\ e.current >= 1 /\ e.active = Some(e.current)
         /\ e.ok = Cardinality(OkItems(n))
         /\ e.failed = Cardinality(FailedItems(n))
         /\ e.ok + e.failed = e.current - 1
         /\ \A k \in 1..n : IsItem(events[k]) => events[k].index < e.current
  /\ \A m, n \in DOMAIN events :
       (m < n /\ IsProgress(events[m]) /\ IsProgress(events[n])) =>
         /\ events[m].ok <= events[n].ok
         /\ events[m].failed <= events[n].failed
  /\ \A n \in DOMAIN events :
       IsPhase(events[n], {"done"}) =>
         \A m \in 1..(n - 1) :
           IsProgress(events[m]) => events[m].ok + events[m].failed < events[n].current

\* a stage event of the third item after one success and one failure
C19_Witness ==
  \E n \in DOMAIN events :
    /\ IsPhase(events[n], Stages)
    /\ events[n].current = 3 /\ events[n].ok = 1 /\ events[n].failed = 1

----------------------------------------------------------------------------
(* The report of the scan (SpecScan) *)

\* the first size read that is not the first one's
FirstDiffering ==
  scan.read[CHOOSE i \in 1..Len(scan.read) :
              /\ scan.read[i] # scan.read[1]
              /\ \A j \in 1..(i - 1) : scan.read[j] = scan.read[1]]

\* C20: in every report baseSize is the size of the first SVG file read and
\* is absent only when total is 0; uniqueSizes has no duplicates and starts
\* with baseSize; it is exactly <<baseSize>> when allSame is true and total
\* > 0, and exactly <<baseSize, first differing size>> when allSame is
\* false; it never holds more than two sizes, during the walk either.
C20_ReportShape ==
  /\ ScanReported =>
       LET r == scan.ret.v
           u == r.unique_sizes
       IN /\ r.base_size.some <=> r.total > 0
          /\ r.base_size.some => r.base_size.v = scan.read[1]
          /\ \A i, j \in 1..Len(u) : i # j => u[i] # u[j]
          /\ u # <<>> => u[1] = r.base_size.v
          /\ r.total = 0 => u = <<>> /\ r.all_same
          /\ (r.all_same /\ r.total > 0) => u = <<r.base_size.v>>
          /\ ~r.all_same => u = <<r.base_size.v, FirstDiffering>>
          /\ Len(u) <= 2
  /\ scan.pc = "loop" => Len(scan.unique_sizes) <= 2

\* a report over three files or more with two sizes
C20_Witness ==
  /\ ScanReported
  /\ scan.ret.v.total >= 3 /\ ~scan.ret.v.all_same
  /\ Len(scan.ret.v.unique_sizes) = 2
  /\ Len(scan.read) >= 3

====
